---- MODULE Spec2Model ----
(***************************************************************************)
(* A model of timestomp.py: the tick/datetime codec (ticks_to_datetime,    *)
(* datetime_to_ticks), the line protocol of WindowsTimestampAccessor, and  *)
(* the command-line driver main().                                         *)
(*                                                                         *)
(* Python integers are unbounded and the tick values are near 6 * 10^17,   *)
(* so integers that can leave the 32-bit range are kept as sequences of    *)
(* base-2^15 limbs, least significant first, without leading zero limbs    *)
(* (<<>> is 0).  A signed integer is a record [neg, mag].  Text is kept as *)
(* a sequence of one-character strings.                                    *)
(***************************************************************************)
EXTENDS Integers, Sequences, FiniteSets, TLC

(***************************************************************************)
(* Python int: naturals as limb sequences                                  *)
(***************************************************************************)
\* bits per limb, and the limb base 2^LimbBits
LimbBits == 15
Base == 2 ^ LimbBits

\* the one element of a one-element set; Only({F(v) : v \in {e}}) is F(e)
\* with e evaluated before F is entered
Only(S) == CHOOSE v \in S : TRUE

SeqMax(a, b) == IF Len(a) < Len(b) THEN Len(b) ELSE Len(a)

Limb(a, i) == IF 1 <= i /\ i <= Len(a) THEN a[i] ELSE 0

\* a without its leading (most significant) zero limbs
Norm(a) ==
  IF \A i \in 1 .. Len(a) : a[i] = 0 THEN <<>>
  ELSE SubSeq(a, 1, CHOOSE i \in 1 .. Len(a) :
                      a[i] # 0 /\ \A hi \in (i + 1) .. Len(a) : a[hi] = 0)

\* a natural below 2^31 as limbs, and back
NatFromInt(n) == Norm(<<n % Base, (n \div Base) % Base, n \div (Base * Base)>>)

NatToInt(a) == Limb(a, 1) + Base * Limb(a, 2) + Base * Base * Limb(a, 3)

NatCmp(a, b) ==
  IF Len(a) < Len(b) THEN -1
  ELSE IF Len(a) > Len(b) THEN 1
  ELSE IF a = b THEN 0
  ELSE LET cmpTop == CHOOSE i \in 1 .. Len(a) :
                       a[i] # b[i] /\ \A hi \in (i + 1) .. Len(a) : a[hi] = b[hi]
       IN  IF a[cmpTop] < b[cmpTop] THEN -1 ELSE 1

NatLt(a, b) == NatCmp(a, b) < 0
NatLe(a, b) == NatCmp(a, b) <= 0

\* the carry into limb i of a + b: some lower limb overflows and every limb
\* between passes the carry on
AddCarry(a, b, i) ==
  IF \E lo \in 1 .. (i - 1) :
       /\ Limb(a, lo) + Limb(b, lo) >= Base
       /\ \A mid \in (lo + 1) .. (i - 1) : Limb(a, mid) + Limb(b, mid) = Base - 1
  THEN 1 ELSE 0

NatAdd(a, b) ==
  IF a = <<>> THEN b
  ELSE IF b = <<>> THEN a
  ELSE Norm([i \in 1 .. (SeqMax(a, b) + 1) |->
               (Limb(a, i) + Limb(b, i) + AddCarry(a, b, i)) % Base])

\* the borrow from limb i of a - b
SubBorrow(a, b, i) ==
  IF \E lo \in 1 .. (i - 1) :
       /\ Limb(a, lo) < Limb(b, lo)
       /\ \A mid \in (lo + 1) .. (i - 1) : Limb(a, mid) = Limb(b, mid)
  THEN 1 ELSE 0

\* a - b for a >= b
NatSub(a, b) ==
  IF a = b THEN <<>>
  ELSE Norm([i \in 1 .. Len(a) |->
               (Limb(a, i) - Limb(b, i) - SubBorrow(a, b, i) + Base) % Base])

\* a * m for 0 <= m <= Base: the low halves of the limb products plus the
\* high halves one limb up
NatMulSmall(a, m) ==
  IF a = <<>> \/ m = 0 THEN <<>>
  ELSE NatAdd([i \in 1 .. Len(a) |-> (a[i] * m) % Base],
              [i \in 1 .. (Len(a) + 1) |->
                 IF i = 1 THEN 0 ELSE (a[i - 1] * m) \div Base])

\* the remainder left after dividing limbs i .. Len(a) of a by d
RECURSIVE DivRem(_, _, _)
DivRem(a, d, i) ==
  IF i > Len(a) THEN 0 ELSE (DivRem(a, d, i + 1) * Base + a[i]) % d

\* a divided by d, for 1 <= d <= Base: [quo, rmd]
NatDivModSmall(a, d) ==
  IF a = <<>> THEN [quo |-> <<>>, rmd |-> 0] ELSE
  [quo |-> Norm([i \in 1 .. Len(a) |-> (DivRem(a, d, i + 1) * Base + a[i]) \div d]),
   rmd |-> DivRem(a, d, 1)]

\* 2^k as a natural
Pow2(k) == [i \in 1 .. (k \div LimbBits + 1) |->
              IF i = k \div LimbBits + 1 THEN 2 ^ (k % LimbBits) ELSE 0]

\* floor(a / 2^k)
NatShr(a, k) ==
  IF k = 0 \/ a = <<>> THEN a ELSE
  LET shrLimbs == k \div LimbBits
      shrBits  == k % LimbBits
  IN  Norm([i \in 1 .. (Len(a) - shrLimbs) |->
              Limb(a, i + shrLimbs) \div (2 ^ shrBits)
              + (Limb(a, i + shrLimbs + 1) % (2 ^ shrBits)) * (2 ^ (LimbBits - shrBits))])

\* a * 2^k
NatShl(a, k) ==
  IF k = 0 \/ a = <<>> THEN a ELSE
  LET shlLimbs == k \div LimbBits
      shlBits  == k % LimbBits
  IN  Norm([i \in 1 .. (Len(a) + shlLimbs + 1) |->
              (Limb(a, i - shlLimbs) % (2 ^ (LimbBits - shlBits))) * (2 ^ shlBits)
              + Limb(a, i - shlLimbs - 1) \div (2 ^ (LimbBits - shlBits))])

\* the number of bits of a: 0 for 0, else 1 + floor(log2 a)
BitLen(a) ==
  IF a = <<>> THEN 0
  ELSE LimbBits * (Len(a) - 1)
       + (CHOOSE bl \in 1 .. LimbBits : 2 ^ (bl - 1) <= a[Len(a)] /\ a[Len(a)] < 2 ^ bl)

NatIsOdd(a) == a # <<>> /\ a[1] % 2 = 1

(***************************************************************************)
(* Python int: signed                                                      *)
(***************************************************************************)
IntOf(isNeg, magnitude) == [neg |-> isNeg /\ magnitude # <<>>, mag |-> magnitude]

IntFromInt(n) == IF n < 0 THEN IntOf(TRUE, NatFromInt(-n)) ELSE IntOf(FALSE, NatFromInt(n))

IntNeg(a) == IntOf(~a.neg, a.mag)

IntAdd(a, b) ==
  IF a.neg = b.neg THEN IntOf(a.neg, NatAdd(a.mag, b.mag))
  ELSE IF NatLe(b.mag, a.mag) THEN IntOf(a.neg, NatSub(a.mag, b.mag))
  ELSE IntOf(b.neg, NatSub(b.mag, a.mag))

IntSub(a, b) == IntAdd(a, IntNeg(b))

\* a * m for a natural m <= Base
IntMulSmall(a, m) == IntOf(a.neg, NatMulSmall(a.mag, m))

(***************************************************************************)
(* Decimal text of an integer: str(int) and int(str)                       *)
(***************************************************************************)
Digits == <<"0", "1", "2", "3", "4", "5", "6", "7", "8", "9">>

IsDigit(c) == \E i \in 1 .. 10 : Digits[i] = c

DigitVal(c) == (CHOOSE i \in 1 .. 10 : Digits[i] = c) - 1

\* the digit of cs (digit characters, most significant first) that stands
\* for 10^p; 0 beyond the front
DigitAt(cs, p) == IF p < Len(cs) THEN DigitVal(cs[Len(cs) - p]) ELSE 0

\* the four digits of cs that stand for 10^(4g) .. 10^(4g + 3), as a number
DigitGroup(cs, g) ==
  DigitAt(cs, 4 * g) + 10 * DigitAt(cs, 4 * g + 1)
  + 100 * DigitAt(cs, 4 * g + 2) + 1000 * DigitAt(cs, 4 * g + 3)

RECURSIVE NatFromGroups(_, _)
NatFromGroups(cs, g) ==
  IF 4 * g >= Len(cs) THEN <<>>
  ELSE NatAdd(NatFromInt(DigitGroup(cs, g)), NatMulSmall(NatFromGroups(cs, g + 1), 10000))

\* the natural written by the digit characters cs
NatFromDigits(cs) == NatFromGroups(cs, 0)

FourDigits(n) ==
  <<Digits[(n \div 1000) + 1], Digits[((n \div 100) % 10) + 1],
    Digits[((n \div 10) % 10) + 1], Digits[(n % 10) + 1]>>

\* the digit characters of a, in groups of four, zero-padded at the front
RECURSIVE NatToGroups(_)
NatToGroups(a) ==
  IF a = <<>> THEN <<>>
  ELSE NatToGroups(NatDivModSmall(a, 10000).quo) \o FourDigits(NatDivModSmall(a, 10000).rmd)

\* cs without its leading "0" characters
StripZeros(cs) ==
  IF \A i \in 1 .. Len(cs) : cs[i] = "0" THEN <<>>
  ELSE SubSeq(cs, CHOOSE i \in 1 .. Len(cs) :
                    cs[i] # "0" /\ \A lz \in 1 .. (i - 1) : cs[lz] = "0", Len(cs))

\* the digit characters of a natural, without leading zeros ("" for 0)
NatToDigits(a) == StripZeros(NatToGroups(a))

\* "{}".format(n) for an int n
IntToStr(a) ==
  IF a.mag = <<>> THEN <<"0">>
  ELSE (IF a.neg THEN <<"-">> ELSE <<>>) \o NatToDigits(a.mag)

(***************************************************************************)
(* IEEE-754 binary64 arithmetic, exactly, on naturals                      *)
(***************************************************************************)
\* mantissa width of a Python float
MantBits == 53

\* round(a / 2^k), ties to even
RoundHalfEven(a, k) ==
  IF k = 0 \/ a = <<>> THEN a
  ELSE LET rheQuo  == NatShr(a, k)
           rheRmd  == NatSub(a, NatShl(rheQuo, k))
           rheHalf == NatCmp(NatShl(rheRmd, 1), Pow2(k))
       IN  IF rheHalf > 0 \/ (rheHalf = 0 /\ NatIsOdd(rheQuo))
           THEN NatAdd(rheQuo, <<1>>) ELSE rheQuo

\* the number of bits of a beyond MantBits (0 when a < 2^MantBits)
ExcessBits(a) == IF BitLen(a) > MantBits THEN BitLen(a) - MantBits ELSE 0

\* float(a) for a natural a: the nearest binary64 value, as an exact natural
ToDouble(a) ==
  Only({NatShl(td, ExcessBits(a)) : td \in {RoundHalfEven(a, ExcessBits(a))}})

\* 10^7 * 2^k
TenMillionShl(k) == NatShl(NatMulSmall(NatFromInt(10000), 1000), k)

\* f / 1e7 for a float f >= 0 holding the natural a, a < 2^MantBits * 10^7:
\* the nearest binary64 value, as [man, exp] standing for man / 2^exp
DivBy1e7(a) ==
  IF a = <<>> THEN [man |-> <<>>, exp |-> 0]
  ELSE LET \* a * 2^BitLen(10^7 * 2^52) / 2^BitLen(a) is within a factor of two
           \* of 10^7 * 2^52
           dvGuess  == BitLen(TenMillionShl(MantBits - 1)) - BitLen(a)
           dvExp    == IF NatLe(TenMillionShl(MantBits - 1), NatShl(a, dvGuess))
                       THEN dvGuess ELSE dvGuess + 1
           dvD1     == NatDivModSmall(NatShl(a, dvExp), 10000)
           dvD2     == NatDivModSmall(dvD1.quo, 1000)
           dvRmd    == dvD1.rmd + 10000 * dvD2.rmd
           dvUp     == 2 * dvRmd > 10000000
                       \/ (2 * dvRmd = 10000000 /\ NatIsOdd(dvD2.quo))
       IN  [man |-> IF dvUp THEN NatAdd(dvD2.quo, <<1>>) ELSE dvD2.quo, exp |-> dvExp]

(***************************************************************************)
(* datetime: the proleptic Gregorian calendar of Python's datetime         *)
(***************************************************************************)
IsLeap(y) == y % 4 = 0 /\ (y % 100 # 0 \/ y % 400 = 0)

DaysInMonth(y, m) ==
  IF m = 2 THEN (IF IsLeap(y) THEN 29 ELSE 28)
  ELSE IF m \in {4, 6, 9, 11} THEN 30 ELSE 31

DaysBeforeYear(y) ==
  (y - 1) * 365 + (y - 1) \div 4 - (y - 1) \div 100 + (y - 1) \div 400

RECURSIVE DaysBeforeMonth(_, _)
DaysBeforeMonth(y, m) ==
  IF m = 1 THEN 0 ELSE DaysBeforeMonth(y, m - 1) + DaysInMonth(y, m - 1)

\* date.toordinal(): 0001-01-01 is day 1
Ymd2Ord(y, m, d) == DaysBeforeYear(y) + DaysBeforeMonth(y, m) + d

\* date.max.toordinal()
MaxOrdinal == Ymd2Ord(9999, 12, 31)

\* date.fromordinal(n) for 1 <= n <= MaxOrdinal
Ord2Ymd(n) ==
  LET oyYear  == CHOOSE yy \in ((n - 1) \div 366 + 1) .. ((n - 1) \div 365 + 1) :
                   DaysBeforeYear(yy) < n /\ n <= DaysBeforeYear(yy + 1)
      oyDay   == n - DaysBeforeYear(oyYear)
      oyMonth == CHOOSE mm \in 1 .. 12 :
                   /\ DaysBeforeMonth(oyYear, mm) < oyDay
                   /\ oyDay <= DaysBeforeMonth(oyYear, mm) + DaysInMonth(oyYear, mm)
  IN  [year |-> oyYear, month |-> oyMonth, day |-> oyDay - DaysBeforeMonth(oyYear, oyMonth)]

\* the ordinal of 1970-01-01, datetime.utcfromtimestamp(0)
EpochOrdinal == Ymd2Ord(1970, 1, 1)

\* a datetime; utcoffset (minutes) is meaningful only when aware (tzinfo is not None)
DateTime(y, mo, d, h, mi, s, us, isAware, off) ==
  [year |-> y, month |-> mo, day |-> d, hour |-> h, minute |-> mi, second |-> s,
   microsecond |-> us, aware |-> isAware, utcoffset |-> off]

NoDateTime == DateTime(0, 0, 0, 0, 0, 0, 0, FALSE, 0)

(***************************************************************************)
(* The tick codec                                                          *)
(***************************************************************************)
\* _EPOCH = 621355968000000000
EPOCH == IntOf(FALSE, NatFromDigits(<<"6", "2", "1", "3", "5", "5", "9", "6", "8",
                                      "0", "0", "0", "0", "0", "0", "0", "0", "0">>))

\* datetime.utcfromtimestamp(f) for the float f = sign * man / 2^exp, in
\* stages.  UtcBuild: the datetime of a count of days and a second of the
\* day; [err, val], err the exception raised when the year is outside
\* 1 .. 9999
UtcBuild(isBefore, dayPart, micros) ==
  LET utDays == IF isBefore
                THEN (IF dayPart.rmd > 0 THEN -(dayPart.dabs + 1) ELSE -dayPart.dabs)
                ELSE dayPart.dabs
      utSod  == IF isBefore /\ dayPart.rmd > 0 THEN 86400 - dayPart.rmd ELSE dayPart.rmd
  IN  IF dayPart.big \/ EpochOrdinal + utDays < 1 \/ EpochOrdinal + utDays > MaxOrdinal
      THEN [err |-> "ValueError", val |-> NoDateTime]
      ELSE Only({[err |-> "none",
                  val |-> DateTime(ymd.year, ymd.month, ymd.day, utSod \div 3600,
                                   (utSod % 3600) \div 60, utSod % 60, micros, FALSE, 0)] :
                 ymd \in {Ord2Ymd(EpochOrdinal + utDays)}})

\* whole seconds as days and a remainder: [big, dabs, rmd]
UtcDays(seconds) ==
  LET utDm1 == NatDivModSmall(seconds, 100)
      utDm2 == NatDivModSmall(utDm1.quo, 864)
  IN  [big  |-> Len(utDm2.quo) > 2,
       dabs |-> IF Len(utDm2.quo) > 2 THEN 0 ELSE NatToInt(utDm2.quo),
       rmd  |-> utDm1.rmd + 100 * utDm2.rmd]

\* the sign: a negative time with a fraction borrows one second, so that
\* the microsecond is not negative
UtcSigned(negative, whole, usAbs) ==
  IF negative /\ usAbs > 0
  THEN UtcBuild(TRUE, UtcDays(NatAdd(whole, <<1>>)), 1000000 - usAbs)
  ELSE UtcBuild(negative /\ whole # <<>>, UtcDays(whole), usAbs)

\* a fraction that rounds to a whole second carries into the seconds
UtcCarry(negative, whole, usAbs) ==
  IF usAbs >= 1000000
  THEN UtcSigned(negative, NatAdd(whole, <<1>>), usAbs - 1000000)
  ELSE UtcSigned(negative, whole, usAbs)

\* floatpart *= 1e6 (one rounding), then _PyTime_Round(ROUND_HALF_EVEN)
UtcRound(negative, whole, frac, scale) ==
  UtcCarry(negative, whole,
           NatToInt(RoundHalfEven(ToDouble(NatMulSmall(NatMulSmall(frac, 1000), 1000)),
                                  scale)))

\* modf: the whole seconds and the fraction
UtcFromTimestamp(negative, f) ==
  Only({UtcRound(negative, ipart, NatSub(f.man, NatShl(ipart, f.exp)), f.exp) :
        ipart \in {NatShr(f.man, f.exp)}})

\* ticks_to_datetime(ticks): (ticks - _EPOCH) / 1e7 in binary64, then
\* utcfromtimestamp
TicksToDatetimeFloat(t) ==
  LET tfDelta == IntSub(t, EPOCH)
      tfFloat == ToDouble(tfDelta.mag)
  IN  IF NatLe(TenMillionShl(MantBits), tfFloat)
      THEN [err |-> "ValueError", val |-> NoDateTime]
      ELSE Only({UtcFromTimestamp(tfDelta.neg, qf) : qf \in {DivBy1e7(tfFloat)}})

ticks_to_datetime(t) == TicksToDatetimeFloat(t)

\* a faulty datetime_to_ticks that does not look at tzinfo
datetime_to_ticks_unchecked(dtm) ==
  LET duDays    == Ymd2Ord(dtm.year, dtm.month, dtm.day) - EpochOrdinal
      duSeconds == dtm.hour * 3600 + dtm.minute * 60 + dtm.second
      duSecs    == IntAdd(IntMulSmall(IntMulSmall(IntFromInt(duDays), 864), 100),
                          IntFromInt(duSeconds))
      duMicros  == IntAdd(IntMulSmall(IntMulSmall(duSecs, 1000), 1000),
                          IntFromInt(dtm.microsecond))
  IN  [err |-> "none", val |-> IntAdd(IntMulSmall(duMicros, 10), EPOCH)]

\* datetime_to_ticks(dt): [err, val]
datetime_to_ticks(dtm) ==
  IF dtm.aware THEN [err |-> "ValueError", val |-> IntFromInt(0)]
  ELSE LET dtDays    == Ymd2Ord(dtm.year, dtm.month, dtm.day) - EpochOrdinal
           dtSeconds == dtm.hour * 3600 + dtm.minute * 60 + dtm.second
           dtSecs    == IntAdd(IntMulSmall(IntMulSmall(IntFromInt(dtDays), 864), 100),
                               IntFromInt(dtSeconds))
           dtMicros  == IntAdd(IntMulSmall(IntMulSmall(dtSecs, 1000), 1000),
                               IntFromInt(dtm.microsecond))
       IN  [err |-> "none", val |-> IntAdd(IntMulSmall(dtMicros, 10), EPOCH)]

(***************************************************************************)
(* Text: str.rstrip, str.split, str.strip, int(str)                        *)
(***************************************************************************)
\* txt.rstrip("\r\n"): without its trailing run of CR and LF characters
RStripCRLF(txt) ==
  LET rsKeep == {i \in 1..Len(txt) : txt[i] \notin {"\r", "\n"}}
  IN  IF rsKeep = {} THEN <<>>
      ELSE SubSeq(txt, 1, CHOOSE i \in rsKeep : \A j \in rsKeep : j <= i)

\* the position of the n-th occurrence of sep in txt; 0 for n = 0 and
\* Len(txt) + 1 past the last occurrence
SepPos(txt, sep, n) ==
  LET spAll == {i \in 1..Len(txt) : txt[i] = sep}
  IN  IF n = 0 THEN 0
      ELSE IF n > Cardinality(spAll) THEN Len(txt) + 1
      ELSE CHOOSE i \in spAll : Cardinality({j \in spAll : j < i}) = n - 1

\* txt.split(sep) for a one-character sep: never empty, "" gives [""]
Split(txt, sep) ==
  LET spCount == Cardinality({i \in 1..Len(txt) : txt[i] = sep})
  IN  [n \in 1..(spCount + 1) |->
         SubSeq(txt, SepPos(txt, sep, n - 1) + 1, SepPos(txt, sep, n) - 1)]

SplitTab(txt) == Split(txt, "\t")

Whitespace == {" ", "\t", "\n", "\r", "\f"}

\* txt.strip(): without leading and trailing whitespace
Strip(txt) ==
  LET stKeep == {i \in 1..Len(txt) : txt[i] \notin Whitespace}
  IN  IF stKeep = {} THEN <<>>
      ELSE SubSeq(txt, CHOOSE i \in stKeep : \A j \in stKeep : i <= j,
                       CHOOSE i \in stKeep : \A j \in stKeep : j <= i)

\* the digits-and-underscores part of an int literal: digits, with single
\* underscores allowed between digits only
IsIntBody(txt) ==
  /\ txt # <<>>
  /\ \A i \in 1..Len(txt) : IsDigit(txt[i]) \/ txt[i] = "_"
  /\ IsDigit(txt[1]) /\ IsDigit(txt[Len(txt)])
  /\ \A i \in 1..(Len(txt) - 1) : ~(txt[i] = "_" /\ txt[i + 1] = "_")

\* int(tok): [err, val]; surrounding whitespace and one sign are accepted
PyInt(tok) ==
  LET piText == Strip(tok)
      piSign == piText # <<>> /\ piText[1] \in {"+", "-"}
      piBody == IF piSign THEN Tail(piText) ELSE piText
  IN  IF IsIntBody(piBody)
      THEN [err |-> "none",
            val |-> IntOf(piSign /\ piText[1] = "-",
                          NatFromDigits(SelectSeq(piBody, IsDigit)))]
      ELSE [err |-> "ValueError", val |-> IntFromInt(0)]

\* n as two decimal digits, for 0 <= n <= 99
TwoDigits(n) == <<Digits[(n \div 10) + 1], Digits[(n % 10) + 1]>>

\* n as six decimal digits, for 0 <= n <= 999999
SixDigits(n) == TwoDigits(n \div 10000) \o TwoDigits((n \div 100) % 100) \o TwoDigits(n % 100)

\* the value of a text of one to four digits
SmallNat(txt) == NatToInt(NatFromDigits(txt))

IsDigitText(txt, lo, hi) ==
  /\ lo <= Len(txt) /\ Len(txt) <= hi
  /\ \A i \in 1..Len(txt) : IsDigit(txt[i])

(***************************************************************************)
(* datetime.strptime(text, '%Y/%m/%d %H:%M:%S %z') and str(datetime)       *)
(***************************************************************************)
\* %z: Z, or a sign, two hour digits, an optional colon and two minute
\* digits; [err, val] with val the offset in minutes east of UTC
ParseZone(zone) ==
  LET pzDigits == IF Len(zone) = 6 /\ zone[4] = ":"
                  THEN SubSeq(zone, 2, 3) \o SubSeq(zone, 5, 6)
                  ELSE IF zone = <<>> THEN <<>> ELSE Tail(zone)
      pzHours  == SmallNat(SubSeq(pzDigits, 1, 2))
      pzMins   == SmallNat(SubSeq(pzDigits, 3, 4))
      pzOff    == pzHours * 60 + pzMins
  IN  IF zone = <<"Z">> THEN [err |-> "none", val |-> 0]
      ELSE IF /\ zone # <<>>
              /\ zone[1] \in {"+", "-"}
              /\ IsDigitText(pzDigits, 4, 4)
              /\ pzMins <= 59
              /\ pzHours <= 23
           THEN [err |-> "none", val |-> IF zone[1] = "-" THEN -pzOff ELSE pzOff]
           ELSE [err |-> "ValueError", val |-> 0]

\* strptime with the driver's format: [err, val].  The fields are separated
\* by "/", runs of spaces and ":"; the year has four digits, the other
\* fields one or two; a zone name such as UTC does not match %z.  A match
\* always gives an aware datetime.
Strptime(txt) ==
  LET spParts == SelectSeq(Split(txt, " "), LAMBDA piece : piece # <<>>)
      spDate  == Split(spParts[1], "/")
      spTime  == Split(spParts[2], ":")
      spZone  == ParseZone(spParts[3])
      spY     == SmallNat(spDate[1])
      spMo    == SmallNat(spDate[2])
      spD     == SmallNat(spDate[3])
      spH     == SmallNat(spTime[1])
      spMi    == SmallNat(spTime[2])
      spS     == SmallNat(spTime[3])
  IN  IF /\ txt # <<>>
         /\ txt[1] # " " /\ txt[Len(txt)] # " "
         /\ Len(spParts) = 3
         /\ Len(spDate) = 3 /\ Len(spTime) = 3
         /\ IsDigitText(spDate[1], 4, 4)
         /\ IsDigitText(spDate[2], 1, 2) /\ IsDigitText(spDate[3], 1, 2)
         /\ IsDigitText(spTime[1], 1, 2) /\ IsDigitText(spTime[2], 1, 2)
         /\ IsDigitText(spTime[3], 1, 2)
         /\ spZone.err = "none"
         /\ 1 <= spY
         /\ 1 <= spMo /\ spMo <= 12
         /\ 1 <= spD /\ spD <= DaysInMonth(spY, spMo)
         /\ spH <= 23 /\ spMi <= 59 /\ spS <= 59
      THEN [err |-> "none",
            val |-> DateTime(spY, spMo, spD, spH, spMi, spS, 0, TRUE, spZone.val)]
      ELSE [err |-> "ValueError", val |-> NoDateTime]

\* the +HH:MM suffix of an aware datetime
OffsetStr(minutes) ==
  LET osAbs == IF minutes < 0 THEN -minutes ELSE minutes
  IN  <<IF minutes < 0 THEN "-" ELSE "+">> \o TwoDigits(osAbs \div 60)
        \o <<":">> \o TwoDigits(osAbs % 60)

\* str(dt): YYYY-MM-DD HH:MM:SS, then .ffffff when the microsecond is not
\* zero, then the UTC offset when dt is aware
DatetimeStr(dtm) ==
  FourDigits(dtm.year) \o <<"-">> \o TwoDigits(dtm.month) \o <<"-">> \o TwoDigits(dtm.day)
    \o <<" ">> \o TwoDigits(dtm.hour) \o <<":">> \o TwoDigits(dtm.minute)
    \o <<":">> \o TwoDigits(dtm.second)
    \o (IF dtm.microsecond # 0 THEN <<".">> \o SixDigits(dtm.microsecond) ELSE <<>>)
    \o (IF dtm.aware THEN OffsetStr(dtm.utcoffset) ELSE <<>>)

\* the naive datetime of the UTC instant that dt denotes
ToUtcNaive(dtm) ==
  LET unSecs  == dtm.hour * 3600 + dtm.minute * 60 + dtm.second
                   - dtm.utcoffset * 60 + 86400
      unOrd   == Ymd2Ord(dtm.year, dtm.month, dtm.day) + (unSecs \div 86400) - 1
      unSod   == unSecs % 86400
      unYmd   == Ord2Ymd(unOrd)
  IN  DateTime(unYmd.year, unYmd.month, unYmd.day, unSod \div 3600,
               (unSod % 3600) \div 60, unSod % 60, dtm.microsecond, FALSE, 0)

(***************************************************************************)
(* The texts of the program                                                *)
(***************************************************************************)
\* sys.argv[0]
ProgName ==
  <<"t", "i", "m", "e", "s", "t", "o", "m", "p", ".", "p", "y">>

UsageLine ==
  <<"u", "s", "a", "g", "e", ":", " ", ".", "/", "t", "i", "m", "e", "s",
    "t", "o", "m", "p", ".", "p", "y", " ", "p", "a", "t", "h", " ", "-",
    "[", "p", "m", "a", "c", "b", "]", " ", "[", "%", "Y", "/", "%", "m",
    "/", "%", "d", " ", "%", "H", ":", "%", "M", ":", "%", "S", " ", "%",
    "z", "]">>

ExampleLine ==
  <<"e", "x", "a", "m", "p", "l", "e", ":", " ", ".", "/", "t", "i", "m",
    "e", "s", "t", "o", "m", "p", ".", "p", "y", " ", "t", "e", "s", "t",
    ".", "t", "x", "t", " ", "-", "m", "a", " ", "2", "0", "0", "0", "/",
    "0", "2", "/", "2", "8", " ", "1", "3", ":", "0", "3", ":", "3", "0",
    " ", "U", "T", "C">>

DebugLine ==
  <<"D", "E", "B", "U", "G", ":", " ", "m", "a", "d", "e", " ", "i", "t",
    " ", "h", "e", "r", "e">>

NotImplementedLine ==
  <<"c", " ", "(", "M", "F", "T", " ", "c", "h", "a", "n", "g", "e", ")",
    " ", "n", "o", "t", " ", "i", "m", "p", "l", "e", "m", "e", "n", "t",
    "e", "d", " ", "y", "e", "t">>

AccessLabel ==
  <<"a", "c", "c", "e", "s", "s", "_", "t", "i", "m", "e", ":", " ", " ",
    " ", " ", " ", " ", " ">>

ModificationLabel ==
  <<"m", "o", "d", "i", "f", "i", "c", "a", "t", "i", "o", "n", "_", "t",
    "i", "m", "e", ":", " ">>

BirthLabel ==
  <<"b", "i", "r", "t", "h", "_", "t", "i", "m", "e", ":", " ", " ", " ",
    " ", " ", " ", " ", " ">>

ChangedPrefix ==
  <<"t", "i", "m", "e", "s", " ", "f", "o", "r", " ">>

ChangedSuffix ==
  <<" ", "c", "h", "a", "n", "g", "e", "d", " ", "t", "o", ":", " ">>

Creation ==
  <<"C", "r", "e", "a", "t", "i", "o", "n">>

Modification ==
  <<"M", "o", "d", "i", "f", "i", "c", "a", "t", "i", "o", "n">>

Access ==
  <<"A", "c", "c", "e", "s", "s">>

GetWord ==
  <<"G", "e", "t">>

SetWord ==
  <<"S", "e", "t">>

TimeWord ==
  <<"T", "i", "m", "e">>

OkWord ==
  <<"o", "k">>

\* a faulty letter check that also lets x through
CommandLettersWithX == {"p", "m", "a", "c", "b", "x"}

\* the letters main accepts after the dash
CommandLetters == {"p", "m", "a", "c", "b"}

\* os.path.abspath(path) for a relative file name: the working directory,
\* a separator and the name
Cwd == <<"/", "w">>

AbsPath(name) == Cwd \o <<"/">> \o name

\* the request line of _get_some_time(type, path)
GetLine(kind, name) ==
  GetWord \o kind \o TimeWord \o <<"\t">> \o AbsPath(name) \o <<"\n">>

\* the request line of _set_some_time(type, path, ticks), ticks already
\* formatted by str.format
SetLine(kind, name, ticksText) ==
  SetWord \o kind \o TimeWord \o <<"\t">> \o AbsPath(name) \o <<"\t">> \o ticksText
    \o <<"\n">>

(***************************************************************************)
(* Inputs: command lines, the file system, the helper's response lines     *)
(***************************************************************************)
\* the longest run of letters after the dash of a flag token
MaxFlags == 2

TestTxt ==
  <<"t", "e", "s", "t", ".", "t", "x", "t">>

MissingTxt ==
  <<"g", "o", "n", "e", ".", "t", "x", "t">>

\* os.path.isfile(name)
IsFile(name) == name = TestTxt

FlagLetters == CommandLetters \cup {"x"}

\* "-" followed by up to len letters, and two tokens without the dash
FlagTokens(len) ==
  {<<"-">> \o letters : letters \in UNION {[1 .. k -> FlagLetters] : k \in 0 .. len}}
    \cup {<<"p">>, <<>>}

DateOnly ==
  <<"2", "0", "0", "0", "/", "0", "2", "/", "2", "8">>

TimeOnly ==
  <<"1", "3", ":", "0", "3", ":", "3", "0">>

ZoneUTC ==
  <<"U", "T", "C">>

DateTimeUTC ==
  <<"2", "0", "0", "0", "/", "0", "2", "/", "2", "8", " ", "1", "3", ":",
    "0", "3", ":", "3", "0", " ", "U", "T", "C">>

DateTimeZero ==
  <<"2", "0", "0", "0", "/", "0", "2", "/", "2", "8", " ", "1", "3", ":",
    "0", "3", ":", "3", "0", " ", "+", "0", "0", "0", "0">>

DateTimeEast ==
  <<"2", "0", "0", "0", "/", "0", "2", "/", "2", "8", " ", "1", "3", ":",
    "0", "3", ":", "3", "0", " ", "+", "0", "1", "0", "0">>

\* what follows the flag token on the command line: nothing, the usage
\* example as the shell splits it, the usage example quoted, and two dates
\* with a numeric zone
DateArgs ==
  {<<>>, <<DateOnly, TimeOnly, ZoneUTC>>, <<DateTimeUTC>>, <<DateTimeZero>>,
   <<DateTimeEast>>}

\* sys.argv
Argvs ==
  {<<ProgName>>, <<ProgName, TestTxt>>}
    \cup {<<ProgName, MissingTxt, tok>> : tok \in FlagTokens(1)}
    \cup {<<ProgName, TestTxt, tok>> \o rest : tok \in FlagTokens(MaxFlags), rest \in DateArgs}

\* a tick value in 2019 and a tick value before year 1
TicksA ==
  <<"6", "3", "7", "1", "3", "4", "3", "3", "6", "0", "0", "0", "0", "0",
    "0", "0", "0", "0">>

TicksOut ==
  <<"-", "1", "0", "0", "0", "0", "0", "0", "0", "0", "0", "0">>

FailLine ==
  <<"f", "a", "i", "l", "\t", "b", "a", "d", " ", "p", "a", "t", "h", "\n">>

\* the lines the helper may answer with; <<>> is the end of the stream
ResponseLines ==
  {OkWord \o <<"\t">> \o TicksA \o <<"\n">>,
   OkWord \o <<"\t">> \o TicksA \o <<"\r", "\n">>,
   OkWord \o <<"\t">> \o TicksA,
   OkWord \o <<"\t">> \o TicksOut \o <<"\n">>,
   OkWord \o <<"\n">>,
   OkWord \o <<"\r", "\n">>,
   OkWord,
   OkWord \o <<" ", "\n">>,
   OkWord \o <<"\t", "\n">>,
   OkWord \o <<"\t", "a", "b", "c", "\n">>,
   OkWord \o <<"\t", "1", "\t", "2", "\n">>,
   FailLine,
   <<"\n">>,
   <<>>}

(***************************************************************************)
(* State                                                                   *)
(***************************************************************************)
VARIABLES
  pc,                \* the source line about to run; 0 once the process ended
  sub,               \* inside a Get or Set call: "call", "read" or "check"
  argv,              \* sys.argv
  launches,          \* child processes started by Popen
  queryOpen,         \* self.query (the child's stdin) is open
  responseOpen,      \* self.response (the child's stdout) is open
  returncode,        \* proc.returncode; -1 until wait() returned
  closeCalls,        \* calls of close()
  requests,          \* the lines written to self.query, in order
  nread,             \* the lines read from self.response
  line,              \* the response line held by the running Get or Set call
  stdout,            \* the lines printed
  exc,               \* the exception being propagated, "none" if none
  exitStatus,        \* the exit status of the process; -1 while it runs
  commands,          \* main's commands
  access_time,       \* main's access_time
  modification_time, \* main's modification_time
  creation_time,     \* main's creation_time
  date,              \* main's date
  ci,                \* the index of c in the loop of line 142
  ticks,             \* the argument of ticks_to_datetime
  dt,                \* the argument of datetime_to_ticks
  result,            \* the value datetime_to_ticks returned
  excReturncode      \* the returncode a raised CalledProcessError carries; -1 if none

vars ==
  <<pc, sub, argv, launches, queryOpen, responseOpen, returncode, closeCalls,
    requests, nread, line, stdout, exc, exitStatus, commands, access_time,
    modification_time, creation_time, date, ci, ticks, dt, result,
    excReturncode>>

\* main's path (line 113)
path == argv[2]

\* locals are unbound until assigned; the code reads none before it is
\* assigned, and the model holds 0, no date and no commands until then
Init ==
  /\ pc = 108
  /\ sub = "call"
  /\ argv \in Argvs
  /\ launches = 0
  /\ queryOpen = FALSE
  /\ responseOpen = FALSE
  /\ returncode = -1
  /\ closeCalls = 0
  /\ requests = <<>>
  /\ nread = 0
  /\ line = <<>>
  /\ stdout = <<>>
  /\ exc = "none"
  /\ exitStatus = -1
  /\ commands = <<>>
  /\ access_time = IntFromInt(0)
  /\ modification_time = IntFromInt(0)
  /\ creation_time = IntFromInt(0)
  /\ date = NoDateTime
  /\ ci = 0
  /\ excReturncode = -1
  /\ ticks = IntFromInt(0)
  /\ dt = NoDateTime
  /\ result = IntFromInt(0)

(***************************************************************************)
(* Steps of main: the with statement, the argument checks, usage           *)
(***************************************************************************)
procVars == <<launches, queryOpen, responseOpen, returncode, closeCalls>>

ioVars == <<requests, nread, line>>

localVars == <<commands, access_time, modification_time, creation_time, date, ci>>

\* the variables of the conversion functions called on their own
codecVars == <<ticks, dt, result>>

\* the elements of a sequence
Range(sq) == {sq[i] : i \in 1 .. Len(sq)}

\* a faulty driver without the with statement: an exception ends the
\* process and __exit__ does not run
RaiseUnscoped(kind) ==
  /\ exc' = kind
  /\ pc' = 163
  /\ sub' = "call"
  /\ line' = <<>>

\* an exception leaves the with body: the running call is abandoned and
\* __exit__ (line 42) runs next
Raise(kind) ==
  /\ exc' = kind
  /\ pc' = 42
  /\ sub' = "call"
  /\ line' = <<>>

\* line 108: WindowsTimestampAccessor() starts the child and keeps its two
\* pipes (lines 25-28); __enter__ returns the object; line 109 reads sys.argv
Launch ==
  /\ pc = 108
  /\ launches' = launches + 1
  /\ queryOpen' = TRUE
  /\ responseOpen' = TRUE
  /\ pc' = 110
  /\ UNCHANGED <<sub, argv, returncode, closeCalls, ioVars, stdout, exc, exitStatus,
                 localVars, codecVars, excReturncode>>

\* lines 110-111
CheckArgc ==
  /\ pc = 110
  /\ pc' = IF Len(argv) < 3 THEN 103 ELSE 113
  /\ UNCHANGED <<sub, argv, procVars, ioVars, stdout, exc, exitStatus, localVars,
                 codecVars, excReturncode>>

\* lines 113-115
CheckFile ==
  /\ pc = 113
  /\ pc' = IF ~IsFile(path) THEN 103 ELSE 117
  /\ UNCHANGED <<sub, argv, procVars, ioVars, stdout, exc, exitStatus, localVars,
                 codecVars, excReturncode>>

\* text.startswith("-")
StartsWithDash(txt) == txt # <<>> /\ txt[1] = "-"

\* lines 117-118
CheckDash ==
  /\ pc = 117
  /\ pc' = IF ~StartsWithDash(argv[3]) THEN 103 ELSE 120
  /\ UNCHANGED <<sub, argv, procVars, ioVars, stdout, exc, exitStatus, localVars,
                 codecVars, excReturncode>>

\* line 120
PrintDebug ==
  /\ pc = 120
  /\ stdout' = Append(stdout, DebugLine)
  /\ pc' = 122
  /\ UNCHANGED <<sub, argv, procVars, ioVars, exc, exitStatus, localVars, codecVars, excReturncode>>

\* lines 122-125: the letters after the dash; usage() at the first letter
\* that is none of p, m, a, c, b
ParseCommands ==
  /\ pc = 122
  /\ commands' = Tail(argv[3])
  /\ pc' = IF \E i \in 1 .. Len(commands') : commands'[i] \notin CommandLetters
           THEN 103 ELSE 127
  /\ UNCHANGED <<sub, argv, procVars, ioVars, stdout, exc, exitStatus, access_time,
                 modification_time, creation_time, date, ci, codecVars, excReturncode>>

\* lines 102-105: usage() prints two lines and raises SystemExit(1)
Usage ==
  /\ pc = 103
  /\ stdout' = stdout \o <<UsageLine, ExampleLine>>
  /\ Raise("SystemExit")
  /\ UNCHANGED <<argv, procVars, requests, nread, exitStatus, localVars, codecVars, excReturncode>>

\* a faulty line 127 that queries the three times whatever the letters are
IfPrintAlways ==
  /\ pc = 127
  /\ pc' = 128
  /\ UNCHANGED <<sub, argv, procVars, ioVars, stdout, exc, exitStatus, localVars,
                 codecVars, excReturncode>>

\* line 127
IfPrint ==
  /\ pc = 127
  /\ pc' = IF "p" \in Range(commands) THEN 128 ELSE 138
  /\ UNCHANGED <<sub, argv, procVars, ioVars, stdout, exc, exitStatus, localVars,
                 codecVars, excReturncode>>

(***************************************************************************)
(* Get: _get_some_time, called at lines 128-130 and 154-156                *)
(***************************************************************************)
GetCallLines == {128, 129, 130, 154, 155, 156}

\* the type each call site passes (lines 47-54)
GetKind(at) ==
  IF at \in {128, 154} THEN Access
  ELSE IF at \in {129, 155} THEN Modification
  ELSE Creation

\* a faulty exchange that writes its request and reads no response line
ReadCountStale(cnt) == cnt

\* readline() consumes one line of the response stream
ReadCount(cnt) == cnt + 1

\* a faulty check that only looks at the first token of two or more
GetOkAtLeastTwo(tokens) == Len(tokens) >= 2 /\ tokens[1] = OkWord

\* line 61: the response is well formed
GetOk(tokens) == Len(tokens) = 2 /\ tokens[1] = OkWord

\* lines 58-59: write the request and flush
GetWrite ==
  /\ pc \in GetCallLines
  /\ sub = "call"
  /\ requests' = Append(requests, GetLine(GetKind(pc), path))
  /\ sub' = "read"
  /\ UNCHANGED <<pc, argv, procVars, nread, line, stdout, exc, exitStatus, localVars,
                 codecVars, excReturncode>>

\* line 60: readline() returns the helper's next line
GetRead ==
  /\ pc \in GetCallLines
  /\ sub = "read"
  /\ \E resp \in ResponseLines : line' = resp
  /\ nread' = ReadCount(nread)
  /\ sub' = "check"
  /\ UNCHANGED <<pc, argv, procVars, requests, stdout, exc, exitStatus, localVars,
                 codecVars, excReturncode>>

\* lines 60-63: strip, split, check and convert; the value returned is
\* bound by the calling line
GetCheck ==
  /\ pc \in GetCallLines
  /\ sub = "check"
  /\ LET gcTokens == SplitTab(RStripCRLF(line))
     IN  IF ~GetOk(gcTokens)
         THEN /\ Raise("Exception")
              /\ UNCHANGED <<access_time, modification_time, creation_time>>
         ELSE IF PyInt(gcTokens[2]).err # "none"
         THEN /\ Raise("ValueError")
              /\ UNCHANGED <<access_time, modification_time, creation_time>>
         ELSE /\ access_time' = IF pc \in {128, 154} THEN PyInt(gcTokens[2]).val
                                ELSE access_time
              /\ modification_time' = IF pc \in {129, 155} THEN PyInt(gcTokens[2]).val
                                      ELSE modification_time
              /\ creation_time' = IF pc \in {130, 156} THEN PyInt(gcTokens[2]).val
                                  ELSE creation_time
              /\ pc' = pc + 1
              /\ sub' = "call"
              /\ line' = <<>>
              /\ exc' = exc
  /\ UNCHANGED <<argv, procVars, requests, nread, stdout, exitStatus, commands, date,
                 ci, codecVars, excReturncode>>

(***************************************************************************)
(* The three print lines (131-133 and 157-159), the early return           *)
(***************************************************************************)
PrintLines == {131, 132, 133, 157, 158, 159}

PrintLabel(at) ==
  IF at \in {131, 157} THEN AccessLabel
  ELSE IF at \in {132, 158} THEN ModificationLabel
  ELSE BirthLabel

\* the line that follows a print line: 135 after the first group, the end
\* of the with body (__exit__, line 42) after the second
AfterPrint(at) == IF at = 133 THEN 135 ELSE IF at = 159 THEN 42 ELSE at + 1

\* one of lines 131-133, 157-159: convert the ticks and print; the
\* conversion raises for a time outside years 1..9999
PrintTime ==
  /\ pc \in PrintLines
  /\ LET ptTicks == IF pc \in {131, 157} THEN access_time
                    ELSE IF pc \in {132, 158} THEN modification_time
                    ELSE creation_time
         ptTime  == ticks_to_datetime(ptTicks)
     IN  IF ptTime.err # "none"
         THEN /\ Raise(ptTime.err)
              /\ stdout' = stdout
         ELSE /\ stdout' = Append(stdout, PrintLabel(pc) \o DatetimeStr(ptTime.val))
              /\ pc' = AfterPrint(pc)
              /\ UNCHANGED <<sub, line, exc>>
  /\ UNCHANGED <<argv, procVars, requests, nread, exitStatus, localVars, codecVars, excReturncode>>

\* a faulty early return that never takes place for a flag token with letters
OnlyPrintNever(cmds) == Len(cmds) = 0

\* line 135: print was the only command
OnlyPrint(cmds) == Len(cmds) = 1

\* lines 135-136: return leaves the with body
ReturnIfOnlyPrint ==
  /\ pc = 135
  /\ pc' = IF OnlyPrint(commands) THEN 42 ELSE 138
  /\ UNCHANGED <<sub, argv, procVars, ioVars, stdout, exc, exitStatus, localVars,
                 codecVars, excReturncode>>

(***************************************************************************)
(* The date argument and the loop over the commands (lines 138-150)        *)
(***************************************************************************)
\* bool(dt): a datetime object is always true
DatetimeTruthy(dtm) == TRUE

\* lines 138-140: argv[3] is the fourth word of sys.argv; indexing raises
\* IndexError when it is missing and strptime raises ValueError when the
\* text does not match
ParseDate ==
  /\ pc = 138
  /\ IF Len(argv) < 4
     THEN Raise("IndexError") /\ UNCHANGED <<date, ci>>
     ELSE IF Strptime(argv[4]).err # "none"
     THEN Raise(Strptime(argv[4]).err) /\ UNCHANGED <<date, ci>>
     ELSE /\ date' = Strptime(argv[4]).val
          /\ pc' = IF ~DatetimeTruthy(date') THEN 103 ELSE 142
          /\ ci' = 1
          /\ UNCHANGED <<sub, line, exc>>
  /\ UNCHANGED <<argv, procVars, requests, nread, stdout, exitStatus, commands,
                 access_time, modification_time, creation_time, codecVars, excReturncode>>

\* a faulty dispatch with the branches of m and a exchanged
SetKindSwapped(letter) ==
  IF letter = "m" THEN Access
  ELSE IF letter = "a" THEN Modification
  ELSE Creation

\* the type each branch of lines 143-150 passes
SetKind(letter) ==
  IF letter = "m" THEN Modification
  ELSE IF letter = "a" THEN Access
  ELSE Creation

\* "{}".format(ticks) at line 78 for the object main passes: str(date)
FormatTicks(dtm) == DatetimeStr(dtm)

\* a faulty check that accepts any line beginning with ok
SetOkPrefix(txt) == Len(txt) >= 2 /\ SubSeq(txt, 1, 2) = OkWord

\* a faulty check that ignores the response
SetOkAlways(txt) == TRUE

\* line 81: the response is the acknowledgement
SetOk(txt) == txt = OkWord

\* lines 144, 146, 150 with 78-79: write the request and flush
SetWrite ==
  /\ pc = 142
  /\ sub = "call"
  /\ ci <= Len(commands)
  /\ commands[ci] \in {"m", "a", "b"}
  /\ requests' = Append(requests, SetLine(SetKind(commands[ci]), path, FormatTicks(date)))
  /\ sub' = "read"
  /\ UNCHANGED <<pc, argv, procVars, nread, line, stdout, exc, exitStatus, localVars,
                 codecVars, excReturncode>>

\* line 80: readline() returns the helper's next line
SetRead ==
  /\ pc = 142
  /\ sub = "read"
  /\ \E resp \in ResponseLines : line' = resp
  /\ nread' = ReadCount(nread)
  /\ sub' = "check"
  /\ UNCHANGED <<pc, argv, procVars, requests, stdout, exc, exitStatus, localVars,
                 codecVars, excReturncode>>

\* lines 80-82: strip and compare; the loop goes on with the next letter
SetCheck ==
  /\ pc = 142
  /\ sub = "check"
  /\ IF ~SetOk(RStripCRLF(line))
     THEN Raise("Exception") /\ ci' = ci
     ELSE /\ ci' = ci + 1
          /\ sub' = "call"
          /\ line' = <<>>
          /\ UNCHANGED <<pc, exc>>
  /\ UNCHANGED <<argv, procVars, requests, nread, stdout, exitStatus, commands,
                 access_time, modification_time, creation_time, date, codecVars, excReturncode>>

\* lines 147-148
LoopNotImplemented ==
  /\ pc = 142
  /\ sub = "call"
  /\ ci <= Len(commands)
  /\ commands[ci] = "c"
  /\ stdout' = Append(stdout, NotImplementedLine)
  /\ ci' = ci + 1
  /\ UNCHANGED <<pc, sub, argv, procVars, ioVars, exc, exitStatus, commands,
                 access_time, modification_time, creation_time, date, codecVars, excReturncode>>

\* a faulty loop that queries and prints again as soon as it meets p
LoopSkipRequery ==
  /\ pc = 142
  /\ sub = "call"
  /\ ci <= Len(commands)
  /\ commands[ci] \notin {"m", "a", "c", "b"}
  /\ ci' = ci + 1
  /\ pc' = 153
  /\ UNCHANGED <<sub, argv, procVars, ioVars, stdout, exc, exitStatus, commands,
                 access_time, modification_time, creation_time, date, codecVars,
                 excReturncode>>

\* lines 142-150 for a letter none of the four branches names (p)
LoopSkip ==
  /\ pc = 142
  /\ sub = "call"
  /\ ci <= Len(commands)
  /\ commands[ci] \notin {"m", "a", "c", "b"}
  /\ ci' = ci + 1
  /\ UNCHANGED <<pc, sub, argv, procVars, ioVars, stdout, exc, exitStatus, commands,
                 access_time, modification_time, creation_time, date, codecVars, excReturncode>>

\* line 142 with the commands exhausted, and line 152
LoopEnd ==
  /\ pc = 142
  /\ sub = "call"
  /\ ci > Len(commands)
  /\ pc' = IF "p" \in Range(commands) THEN 153 ELSE 42
  /\ UNCHANGED <<sub, argv, procVars, ioVars, stdout, exc, exitStatus, localVars,
                 codecVars, excReturncode>>

\* a faulty line 153 that also closes the request pipe before the re-query
PrintChangedClosing ==
  /\ pc = 153
  /\ stdout' = Append(stdout, ChangedPrefix \o path \o ChangedSuffix)
  /\ queryOpen' = FALSE
  /\ pc' = 154
  /\ UNCHANGED <<sub, argv, launches, responseOpen, returncode, closeCalls, ioVars, exc,
                 exitStatus, localVars, codecVars, excReturncode>>

\* line 153
PrintChanged ==
  /\ pc = 153
  /\ stdout' = Append(stdout, ChangedPrefix \o path \o ChangedSuffix)
  /\ pc' = 154
  /\ UNCHANGED <<sub, argv, procVars, ioVars, exc, exitStatus, localVars, codecVars, excReturncode>>

(***************************************************************************)
(* Leaving the with statement: __exit__, close, the end of the process     *)
(***************************************************************************)
\* lines 42-43: __exit__ calls close(); it returns None, so an exception of
\* the body goes on propagating
Exit ==
  /\ pc = 42
  /\ closeCalls' = closeCalls + 1
  /\ pc' = 31
  /\ UNCHANGED <<sub, argv, launches, queryOpen, responseOpen, returncode, ioVars,
                 stdout, exc, exitStatus, localVars, codecVars, excReturncode>>

\* line 31
CloseQuery ==
  /\ pc = 31
  /\ queryOpen' = FALSE
  /\ pc' = 32
  /\ UNCHANGED <<sub, argv, launches, responseOpen, returncode, closeCalls, ioVars,
                 stdout, exc, exitStatus, localVars, codecVars, excReturncode>>

\* a faulty close() that leaves the response pipe open
CloseResponseSkipped ==
  /\ pc = 32
  /\ pc' = 33
  /\ UNCHANGED <<sub, argv, procVars, ioVars, stdout, exc, exitStatus, localVars,
                 codecVars, excReturncode>>

\* line 32
CloseResponse ==
  /\ pc = 32
  /\ responseOpen' = FALSE
  /\ pc' = 33
  /\ UNCHANGED <<sub, argv, launches, queryOpen, returncode, closeCalls, ioVars,
                 stdout, exc, exitStatus, localVars, codecVars, excReturncode>>

\* the exit statuses the helper may end with
ReturnCodes == {0, 1, 2}

\* a faulty close() that waits for the child and does not look at its status
WaitUnchecked ==
  /\ pc = 33
  /\ \E rc \in ReturnCodes : returncode' = rc
  /\ pc' = 163
  /\ UNCHANGED <<sub, argv, launches, queryOpen, responseOpen, closeCalls, ioVars,
                 stdout, exc, exitStatus, localVars, codecVars, excReturncode>>

\* lines 33-36: wait for the child; a non-zero status raises
\* CalledProcessError, which replaces an exception of the body
Wait ==
  /\ pc = 33
  /\ \E rc \in ReturnCodes :
       /\ returncode' = rc
       /\ exc' = IF rc # 0 THEN "CalledProcessError" ELSE exc
       /\ excReturncode' = IF rc # 0 THEN rc ELSE excReturncode
  /\ pc' = 163
  /\ UNCHANGED <<sub, argv, launches, queryOpen, responseOpen, closeCalls, ioVars,
                 stdout, exitStatus, localVars, codecVars>>

\* the status the interpreter exits with: 0 after a normal return, the
\* argument of SystemExit (1 in usage), 1 after an uncaught exception, and
\* the status of a process ended by SIGINT after KeyboardInterrupt
ExitCode(kind) ==
  IF kind = "none" THEN 0
  ELSE IF kind = "KeyboardInterrupt" THEN 130
  ELSE 1

\* line 163: main() has returned or raised and the interpreter exits
Terminate ==
  /\ pc = 163
  /\ exitStatus' = ExitCode(exc)
  /\ pc' = 0
  /\ UNCHANGED <<sub, argv, procVars, ioVars, stdout, exc, localVars, codecVars, excReturncode>>

Next ==
  \/ Launch
  \/ CheckArgc
  \/ CheckFile
  \/ CheckDash
  \/ PrintDebug
  \/ ParseCommands
  \/ Usage
  \/ IfPrint
  \/ GetWrite
  \/ GetRead
  \/ GetCheck
  \/ PrintTime
  \/ ReturnIfOnlyPrint
  \/ ParseDate
  \/ SetWrite
  \/ SetRead
  \/ SetCheck
  \/ LoopNotImplemented
  \/ LoopSkip
  \/ LoopEnd
  \/ PrintChanged
  \/ Exit
  \/ CloseQuery
  \/ CloseResponse
  \/ Wait
  \/ Terminate

Spec == Init /\ [][Next]_vars

(***************************************************************************)
(* A user interrupt: KeyboardInterrupt may be raised at any point          *)
(***************************************************************************)
\* the lines of close() and of __exit__
TeardownLines == {42, 31, 32, 33}

\* SIGINT arrives and the interpreter raises KeyboardInterrupt before the
\* next line runs: before the with statement nothing was started; in the
\* with body the exception goes to __exit__; in __exit__ or close() it
\* leaves them, with the rest of close() not run
Interrupt ==
  /\ pc # 0
  /\ ~(pc = 163 /\ exc = "KeyboardInterrupt")
  /\ exc' = "KeyboardInterrupt"
  /\ pc' = IF pc \in TeardownLines \cup {108, 163} THEN 163 ELSE 42
  /\ sub' = "call"
  /\ line' = <<>>
  /\ UNCHANGED <<argv, procVars, requests, nread, stdout, exitStatus, localVars,
                 codecVars, excReturncode>>

NextInterrupt == Next \/ Interrupt

SpecInterrupt == Init /\ [][NextInterrupt]_vars

(***************************************************************************)
(* The conversion functions called on their own: ticks_to_datetime on a    *)
(* tick value, then datetime_to_ticks on the datetime it returned          *)
(***************************************************************************)
\* how far, in units of 10 ticks, the tick values lie around each base
MaxK == 3

\* tick values to start from: the first tick, the FILETIME epoch
\* (1601-01-01), the Unix epoch, TicksA, and the first ticks of the years
\* 2100 and 9000
CodecBases ==
  {IntFromInt(0),
   IntOf(FALSE, NatFromDigits(<<"5", "0", "4", "9", "1", "1", "2", "3", "2", "0", "0", "0",
                                "0", "0", "0", "0", "0", "0">>)),
   EPOCH,
   IntOf(FALSE, NatFromDigits(TicksA)),
   IntOf(FALSE, NatFromDigits(<<"6", "6", "2", "5", "1", "0", "8", "8", "0", "0", "0", "0",
                                "0", "0", "0", "0", "0", "0">>)),
   IntOf(FALSE, NatFromDigits(<<"2", "8", "3", "9", "9", "4", "0", "3", "5", "2", "0", "0",
                                "0", "0", "0", "0", "0", "0", "0">>))}

\* the multiples of 10 within 10 * MaxK of a base
CodecTicks ==
  {IntAdd(base, IntFromInt(10 * k)) : base \in CodecBases, k \in (-MaxK) .. MaxK}

InitCodec ==
  /\ pc = 86
  /\ ticks \in CodecTicks
  /\ dt = NoDateTime
  /\ result = IntFromInt(0)
  /\ sub = "call"
  /\ argv = <<ProgName>>
  /\ launches = 0
  /\ queryOpen = FALSE
  /\ responseOpen = FALSE
  /\ returncode = -1
  /\ closeCalls = 0
  /\ requests = <<>>
  /\ nread = 0
  /\ line = <<>>
  /\ stdout = <<>>
  /\ exc = "none"
  /\ exitStatus = -1
  /\ commands = <<>>
  /\ access_time = IntFromInt(0)
  /\ modification_time = IntFromInt(0)
  /\ creation_time = IntFromInt(0)
  /\ date = NoDateTime
  /\ ci = 0
  /\ excReturncode = -1

\* lines 86-87: ticks_to_datetime(ticks); the datetime goes on to
\* datetime_to_ticks, an exception ends the run
CallTicksToDatetime ==
  /\ pc = 86
  /\ IF ticks_to_datetime(ticks).err # "none"
     THEN /\ exc' = ticks_to_datetime(ticks).err
          /\ pc' = 0
          /\ dt' = dt
     ELSE /\ dt' = ticks_to_datetime(ticks).val
          /\ pc' = 91
          /\ exc' = exc
  /\ UNCHANGED <<sub, argv, procVars, ioVars, stdout, exitStatus, localVars, ticks, result,
                 excReturncode>>

\* lines 91-95: datetime_to_ticks(dt)
CallDatetimeToTicks ==
  /\ pc = 91
  /\ IF datetime_to_ticks(dt).err # "none"
     THEN /\ exc' = datetime_to_ticks(dt).err
          /\ result' = result
     ELSE /\ result' = datetime_to_ticks(dt).val
          /\ exc' = exc
  /\ pc' = 0
  /\ UNCHANGED <<sub, argv, procVars, ioVars, stdout, exitStatus, localVars, ticks, dt,
                 excReturncode>>

NextCodec == CallTicksToDatetime \/ CallDatetimeToTicks

SpecCodec == InitCodec /\ [][NextCodec]_vars

(***************************************************************************)
(* datetime_to_ticks called on its own, on naive and on aware datetimes    *)
(***************************************************************************)
\* the datetimes to start from: the first and the last year, the FILETIME
\* epoch, the years around the Unix epoch and a leap year; the first day, the
\* last of February and the last day of the year; naive, and aware with the
\* offsets strptime's %z produces
EncodeDatetimes ==
  {DateTime(y, md[1], md[2], hms[1], hms[2], hms[3], us, zone[1], zone[2]) :
     y \in {1, 1601, 1969, 1970, 2000, 9999},
     md \in {<<1, 1>>, <<2, 28>>, <<12, 31>>},
     hms \in {<<0, 0, 0>>, <<13, 3, 30>>, <<23, 59, 59>>},
     us \in {0, 1, 999999},
     zone \in {<<FALSE, 0>>, <<TRUE, 0>>, <<TRUE, 60>>, <<TRUE, -300>>}}

InitEncode ==
  /\ pc = 91
  /\ dt \in EncodeDatetimes
  /\ ticks = IntFromInt(0)
  /\ result = IntFromInt(0)
  /\ sub = "call"
  /\ argv = <<ProgName>>
  /\ launches = 0
  /\ queryOpen = FALSE
  /\ responseOpen = FALSE
  /\ returncode = -1
  /\ closeCalls = 0
  /\ requests = <<>>
  /\ nread = 0
  /\ line = <<>>
  /\ stdout = <<>>
  /\ exc = "none"
  /\ exitStatus = -1
  /\ commands = <<>>
  /\ access_time = IntFromInt(0)
  /\ modification_time = IntFromInt(0)
  /\ creation_time = IntFromInt(0)
  /\ date = NoDateTime
  /\ ci = 0
  /\ excReturncode = -1

NextEncode == CallDatetimeToTicks

SpecEncode == InitEncode /\ [][NextEncode]_vars

(***************************************************************************)
(* Properties                                                              *)
(***************************************************************************)
\* the words of a request line, without its newline
RequestFields(req) == Split(SubSeq(req, 1, Len(req) - 1), "\t")

IsSetRequest(req) == Len(req) >= 3 /\ SubSeq(req, 1, 3) = <<"S", "e", "t">>

IsGetRequest(req) == Len(req) >= 3 /\ SubSeq(req, 1, 3) = <<"G", "e", "t">>

SetRequests == SelectSeq(requests, IsSetRequest)

\* the letters after the dash of the flag token
FlagLettersGiven == IF Len(argv) >= 3 /\ argv[3] # <<>> THEN Tail(argv[3]) ELSE <<>>

\* the command line passes the argument checks of lines 110-125
ArgumentsValid ==
  /\ Len(argv) >= 3
  /\ argv[2] = TestTxt
  /\ argv[3] # <<>>
  /\ argv[3][1] = "-"
  /\ \A i \in 1 .. Len(FlagLettersGiven) : FlagLettersGiven[i] \in {"p", "m", "a", "c", "b"}

\* the driver's process has ended
Ended == pc = 0

\* the ticks of the instant a parsed date denotes
TicksOfDate(dtm) == datetime_to_ticks(ToUtcNaive(dtm)).val

\* the date argument has the form the usage text documents, or the same
\* with a numeric zone
DocumentedDate ==
  /\ Len(argv) >= 4
  /\ \/ argv[4] \in {DateTimeUTC, DateTimeZero}
     \/ (Len(argv) = 6 /\ SubSeq(argv, 4, 6) = <<DateOnly, TimeOnly, ZoneUTC>>)

\* C1: with a valid existing file, a flag token with at least one of m, a, b
\* and a date argument of the documented form, every Set request written
\* carries as its third tab-separated field the integer tick value of the
\* parsed date, exactly one Set request is written per m/a/b letter, and the
\* program exits 0 if all of them are answered ok.  (Refuted: the third field
\* is the text of the datetime object, and the documented zone UTC does not
\* parse.)
C1_SetRequestsCarryTicks ==
  /\ \A i \in 1 .. Len(requests) :
       IsSetRequest(requests[i]) =>
         /\ Len(RequestFields(requests[i])) = 3
         /\ RequestFields(requests[i])[3] = IntToStr(TicksOfDate(date))
  /\ (/\ Ended
      /\ ArgumentsValid
      /\ DocumentedDate
      /\ "p" \notin Range(FlagLettersGiven)
      /\ \E i \in 1 .. Len(FlagLettersGiven) : FlagLettersGiven[i] \in {"m", "a", "b"}
      /\ exc # "Exception"
      /\ returncode = 0)
     => /\ Len(SetRequests)
             = Cardinality({i \in 1 .. Len(FlagLettersGiven) :
                              FlagLettersGiven[i] \in {"m", "a", "b"}})
        /\ exitStatus = 0

\* a Set request has been written for a date given as 2000/02/28 13:03:30 +0000
C1_SetWritten ==
  /\ ArgumentsValid
  /\ DocumentedDate
  /\ Len(SetRequests) >= 1

\* C2: Close is invoked exactly once per opened channel on every exit path,
\* a user interrupt included: never twice, and once when the process has
\* ended.  (Refuted under SpecInterrupt: KeyboardInterrupt raised in __exit__
\* before line 43 leaves the channel without a call of close().)
C2_CloseExactlyOnce ==
  /\ closeCalls <= launches
  /\ (Ended /\ launches = 1) => closeCalls = 1

\* the process ended after an interrupt, the channel opened and never closed
C2_EndedUnclosed == Ended /\ launches = 1 /\ closeCalls = 0

\* the command line breaks one of the argument rules: fewer than two
\* arguments after the program name, a path that is no existing file, a flag
\* token without the dash, a letter outside p, m, a, c, b
ArgumentViolation ==
  \/ Len(argv) < 3
  \/ argv[2] # TestTxt
  \/ argv[3] = <<>>
  \/ argv[3][1] # "-"
  \/ \E i \in 1 .. Len(FlagLettersGiven) : FlagLettersGiven[i] \notin {"p", "m", "a", "c", "b"}

\* the two usage lines have been printed, last
UsagePrinted ==
  /\ Len(stdout) >= 2
  /\ stdout[Len(stdout) - 1] = UsageLine
  /\ stdout[Len(stdout)] = ExampleLine

IsGetAnswer(txt) ==
  \E cut \in 3 .. Len(txt) :
    /\ txt[1] = "o" /\ txt[2] = "k" /\ txt[3] = "\t"
    /\ cut > 3
    /\ \A i \in 4 .. cut : txt[i] # "\t"
    /\ txt[cut] \notin {"\r", "\n"}
    /\ \A i \in (cut + 1) .. Len(txt) : txt[i] \in {"\r", "\n"}
    /\ PyInt(SubSeq(txt, 4, cut)).err = "none"

\* the variable the Get call of a line binds, in the next state
GetResult(at) ==
  IF at \in {128, 154} THEN access_time'
  ELSE IF at \in {129, 155} THEN modification_time'
  ELSE creation_time'

\* C4: Get succeeds if and only if the response line, stripped of trailing
\* line terminators, splits on tab into exactly two tokens, the first the
\* literal ok and the second an integer; on success it returns that integer
\* (ok<TAB>637134336000000000 returns 637134336000000000); every other
\* response raises an exception and binds no value.
C4_GetSucceedsIffWellFormed ==
  [][(pc \in GetCallLines /\ sub = "check") =>
       /\ (exc' = "none" /\ pc' = pc + 1) <=> IsGetAnswer(line)
       /\ IsGetAnswer(line) =>
            /\ GetResult(pc) = PyInt(SplitTab(RStripCRLF(line))[2]).val
            /\ IntToStr(GetResult(pc)) = SplitTab(RStripCRLF(line))[2]
       /\ ~IsGetAnswer(line) =>
            /\ exc' \in {"Exception", "ValueError"}
            /\ pc' = 42
            /\ UNCHANGED <<access_time, modification_time, creation_time>>]_vars

\* the first Get returned 637134336000000000 and the second is about to start
C4_GetReturned ==
  /\ pc = 129
  /\ sub = "call"
  /\ nread = 1
  /\ exc = "none"
  /\ IntToStr(access_time) = TicksA

\* a response line that, stripped of its trailing CR and LF characters, is ok
IsOkAnswer(txt) ==
  /\ Len(txt) >= 2
  /\ txt[1] = "o" /\ txt[2] = "k"
  /\ \A i \in 3 .. Len(txt) : txt[i] \in {"\r", "\n"}

\* C5: Set succeeds if and only if the response line read after the request,
\* stripped of trailing line terminators, is exactly ok; any other line (ok
\* followed by a tab and more text, an empty line) raises an exception.
C5_SetSucceedsIffOk ==
  [][(pc = 142 /\ sub = "check") =>
       /\ (exc' = "none" /\ ci' = ci + 1 /\ pc' = 142) <=> IsOkAnswer(line)
       /\ ~IsOkAnswer(line) => (exc' = "Exception" /\ pc' = 42 /\ ci' = ci)]_vars

\* the first Set was answered ok and the loop is at the second letter
C5_SetAcknowledged ==
  /\ pc = 142
  /\ sub = "call"
  /\ ci = 2
  /\ Len(SetRequests) = 1
  /\ nread = Len(requests)
  /\ exc = "none"

\* C6: requests and responses are one-to-one and in order: each Get or Set
\* writes one request line and reads one response line before the next
\* request is written, so the requests written exceed the responses read by
\* at most one, and by one exactly while a call waits for its response.
C6_NoPipelining ==
  /\ nread <= Len(requests)
  /\ Len(requests) <= nread + 1
  /\ (Len(requests) = nread + 1) <=> (sub = "read")
  /\ \A i \in 1 .. Len(requests) : IsGetRequest(requests[i]) \/ IsSetRequest(requests[i])

\* the second request is written and only the first response has been read
C6_SecondRequestInFlight == Len(requests) = 2 /\ nread = 1 /\ sub = "read"

\* C7: if a Set operation fails the program terminates at once: the failing
\* exchange raises and leaves the with body, and once an exception is
\* propagating no Set or Get request is written any more, neither for a
\* later flag letter, nor for the re-print, nor to restore a value.
C7_NoRequestAfterFailure ==
  [][/\ (pc = 142 /\ sub = "check" /\ ~IsOkAnswer(line)) => (exc' # "none" /\ pc' = 42)
     /\ (exc # "none") => (requests' = requests /\ nread' = nread /\ exc' # "none")]_vars

\* the first of two Sets failed and the process ended with one request written
C7_FirstSetFailed ==
  /\ Ended
  /\ exc = "Exception"
  /\ Len(commands) = 2
  /\ commands[1] \in {"m", "a", "b"}
  /\ commands[2] \in {"m", "a", "b"}
  /\ ci = 1
  /\ Len(requests) = 1

\* print is the only action requested, on the existing file
OnlyPrintRequested ==
  /\ Len(argv) >= 3
  /\ argv[2] = TestTxt
  /\ argv[3] = <<"-", "p">>

\* the request lines of the three Gets, in the order of lines 128-130
ThreeGets ==
  <<GetLine(Access, TestTxt), GetLine(Modification, TestTxt), GetLine(Creation, TestTxt)>>

\* txt begins with the label
HasLabel(txt, label) == Len(txt) > Len(label) /\ SubSeq(txt, 1, Len(label)) = label

\* the debug line and three labelled timestamp lines, and nothing else
ThreeLinesPrinted ==
  /\ Len(stdout) = 4
  /\ HasLabel(stdout[2], AccessLabel)
  /\ HasLabel(stdout[3], ModificationLabel)
  /\ HasLabel(stdout[4], BirthLabel)

\* C8 as stated: whenever print is the only action requested on an existing
\* file, the driver issues exactly three Get requests (Access, Modification,
\* Creation), prints three labelled timestamp lines, issues no Set request
\* and ends with exit status 0 without reading a date argument.
C8_PrintOnlyAlwaysSucceeds ==
  (OnlyPrintRequested /\ Ended) =>
    /\ requests = ThreeGets
    /\ ThreeLinesPrinted
    /\ exitStatus = 0
    /\ date = NoDateTime

\* C8, amended: whenever print is the only action requested on an existing
\* file, the requests written are a prefix of Get Access, Get Modification,
\* Get Creation, no Set request is written and the date argument is never
\* read; the run ends with status 0 exactly when the three Gets were
\* answered with convertible tick values and the helper exited with status
\* 0, and then three Gets were written and three labelled lines printed;
\* otherwise it ends with a non-zero status because a Get failed, a tick
\* value was not convertible, or the helper exited with a non-zero status.
C8_PrintOnly ==
  OnlyPrintRequested =>
    /\ Len(requests) <= 3
    /\ requests = SubSeq(ThreeGets, 1, Len(requests))
    /\ pc \notin {138, 142, 153}
    /\ date = NoDateTime
    /\ exc \notin {"IndexError", "SystemExit"}
    /\ Ended =>
         /\ (exitStatus = 0) <=> (ThreeLinesPrinted /\ returncode = 0)
         /\ (exitStatus = 0) => (requests = ThreeGets /\ nread = 3)
         /\ (exitStatus # 0) => exc \in {"Exception", "ValueError", "CalledProcessError"}

\* the run of -p ended with status 0 and three lines printed
C8_PrintOnlySucceeded ==
  /\ OnlyPrintRequested
  /\ Ended
  /\ exitStatus = 0
  /\ ThreeLinesPrinted

\* the date argument is missing or does not match the pattern
DateProblem == Len(argv) < 4 \/ Strptime(argv[4]).err # "none"

\* the driver got as far as the date argument: print was not requested, or
\* the three lines of the first print were printed
DateStepReached ==
  \/ "p" \notin Range(FlagLettersGiven)
  \/ (Len(stdout) >= 4 /\ HasLabel(stdout[4], BirthLabel))

\* C9: when the flag token requests an action other than print alone and
\* the date argument is missing or does not parse, the outcome is a usage
\* error: usage text is printed, the exit status is non-zero and no Set
\* request has been written.  (Refuted: the driver ends with an uncaught
\* IndexError or ValueError and prints no usage text.)
C9_BadDateIsUsageError ==
  (/\ Ended
   /\ ArgumentsValid
   /\ \E i \in 1 .. Len(FlagLettersGiven) : FlagLettersGiven[i] # "p"
   /\ DateProblem
   /\ DateStepReached)
  => /\ UsagePrinted
     /\ exitStatus # 0
     /\ SetRequests = <<>>

\* the run of -m without a date argument ended on IndexError
C9_MissingDateEnded ==
  /\ Ended
  /\ argv = <<ProgName, TestTxt, <<"-", "m">>>>
  /\ exc = "IndexError"
  /\ ~UsagePrinted

\* C10: for every tick value t that is a multiple of 10, also far from the
\* Unix epoch and below it, datetime_to_ticks(ticks_to_datetime(t)) = t.
\* (Refuted: the division by 1e7 is a float division, and the float has too
\* few bits for ticks far from the Unix epoch.)
C10_RoundTrip ==
  (pc = 0 /\ dt # NoDateTime /\ exc = "none") => result = ticks

\* the round trip of 10 ticks returned 0
C10_TenBecomesZero ==
  /\ pc = 0
  /\ dt # NoDateTime
  /\ IntToStr(ticks) = <<"1", "0">>
  /\ IntToStr(result) = <<"0">>

\* the ticks from 0001-01-01 00:00:00 to a datetime read as naive, counted
\* from the first day of year 1 and without the Unix epoch
TicksSinceYearOne(dtm) ==
  LET syDays == NatFromInt(Ymd2Ord(dtm.year, dtm.month, dtm.day) - 1)
      sySecs == NatAdd(NatMulSmall(NatMulSmall(syDays, 864), 100),
                       NatFromInt(dtm.hour * 3600 + dtm.minute * 60 + dtm.second))
      syUs   == NatAdd(NatMulSmall(NatMulSmall(sySecs, 1000), 1000),
                       NatFromInt(dtm.microsecond))
  IN  IntOf(FALSE, NatMulSmall(syUs, 10))

\* C11: datetime_to_ticks raises ValueError (the spec's InvalidArgument) and
\* returns no tick value whenever the datetime it is given carries timezone
\* information; for a naive datetime it raises nothing and returns
\* ((days*86400 + seconds)*1000000 + microseconds)*10 + _EPOCH for the signed
\* decomposition of dt - 1970-01-01, which is the count of ticks since
\* 0001-01-01 00:00:00, also for datetimes before 1970.
C11_AwareRejected ==
  [][(pc = 91) =>
       IF dt.aware
       THEN exc' = "ValueError" /\ result' = result
       ELSE /\ exc' = "none"
            /\ result' = TicksSinceYearOne(dt)
            /\ IntSub(result', EPOCH).neg <=> (dt.year < 1970)]_vars

\* datetime_to_ticks was called on 2000-02-28 13:03:30+01:00 and raised
C11_AwareRaised ==
  /\ pc = 0
  /\ dt = DateTime(2000, 2, 28, 13, 3, 30, 0, TRUE, 60)
  /\ exc = "ValueError"
  /\ result = IntFromInt(0)

GetRequests == SelectSeq(requests, IsGetRequest)

\* how many letters of the flag token are one of m, a, b
MutatingLetters ==
  Cardinality({i \in 1 .. Len(FlagLettersGiven) : FlagLettersGiven[i] \in {"m", "a", "b"}})

\* C12 as stated: one invocation issues at most six request/response
\* exchanges with the helper, for every flag token over p, m, a, c, b, also
\* one that combines p with m, a or b or repeats a letter.
C12_AtMostSixExchanges == Len(requests) <= 6 /\ nread <= 6

\* C12, amended: one invocation issues at most six Get exchanges (none
\* without p, three before the date is read and three after the loop) and
\* at most one Set exchange per m, a or b letter of the flag token, so at
\* most six plus the number of those letters in all.
C12_ExchangeBound ==
  /\ Len(GetRequests) <= (IF "p" \in Range(FlagLettersGiven) THEN 6 ELSE 0)
  /\ (pc \in {128, 129, 130, 131, 132, 133, 135, 138}) => Len(GetRequests) <= 3
  /\ Len(SetRequests) <= MutatingLetters
  /\ Len(requests) = Len(GetRequests) + Len(SetRequests)
  /\ nread <= Len(requests)
  /\ Len(requests) <= 6 + MutatingLetters

\* a run with p and one mutating letter ended with seven exchanges
C12_SevenExchanges ==
  /\ Ended
  /\ exitStatus = 0
  /\ Len(FlagLettersGiven) = 2
  /\ Len(requests) = 7
  /\ nread = 7

\* C13: the exit status is 0 only on success: it is non-zero (1) whenever
\* an argument rule was broken or the helper process exited with a non-zero
\* status, also when the with body finished normally or left through
\* usage() and the helper's status is only found by close(); and a run that
\* ends with status 0 raised nothing and found the helper's status 0.
C13_ZeroOnlyOnSuccess ==
  Ended =>
    /\ (ArgumentViolation \/ returncode # 0) => exitStatus = 1
    /\ (exitStatus = 0) => (exc = "none" /\ returncode = 0 /\ ArgumentsValid)
    /\ exitStatus \in {0, 1}

\* the print-only run printed its three lines, the helper then exited with
\* status 1 and the driver ended with status 1
C13_ChildFailureFoundInClose ==
  /\ Ended
  /\ OnlyPrintRequested
  /\ ThreeLinesPrinted
  /\ returncode = 1
  /\ exc = "CalledProcessError"
  /\ exitStatus = 1

\* C14: close() closes the request writer, then the response reader, and
\* only then waits for the child; the wait raises CalledProcessError
\* carrying the child's exit status if and only if that status is non-zero,
\* and with status 0 close() raises nothing: an exception of the with body,
\* if any, goes on unchanged.
C14_CloseThenWait ==
  [][/\ (queryOpen /\ ~queryOpen') => (responseOpen /\ returncode = -1 /\ pc = 31)
     /\ (responseOpen /\ ~responseOpen') => (~queryOpen /\ returncode = -1 /\ pc = 32)
     /\ (returncode = -1 /\ returncode' # -1) =>
          /\ pc = 33
          /\ ~queryOpen /\ ~responseOpen
          /\ (exc' = "CalledProcessError") <=> (returncode' # 0)
          /\ (returncode' # 0) => excReturncode' = returncode'
          /\ (returncode' = 0) => (exc' = exc /\ excReturncode' = -1)
     /\ (pc = 31 /\ pc' # 31) => ~queryOpen'
     /\ (pc = 32 /\ pc' # 32) => ~responseOpen'
     /\ (pc = 33 /\ pc' # 33) => returncode' # -1]_vars

\* close() found the exit status 2 and raised CalledProcessError carrying 2
C14_RaisedWithStatus ==
  /\ pc = 163
  /\ ~queryOpen
  /\ ~responseOpen
  /\ returncode = 2
  /\ exc = "CalledProcessError"
  /\ excReturncode = 2

\* the command word the spec gives for a mutating letter
SetCommandOf(letter) ==
  IF letter = "m" THEN <<"S", "e", "t", "M", "o", "d", "i", "f", "i", "c", "a", "t", "i", "o", "n", "T", "i", "m", "e">>
  ELSE IF letter = "a" THEN <<"S", "e", "t", "A", "c", "c", "e", "s", "s", "T", "i", "m", "e">>
  ELSE <<"S", "e", "t", "C", "r", "e", "a", "t", "i", "o", "n", "T", "i", "m", "e">>

\* the command words of the Set requests written so far, in order
SetCommandsWritten == [i \in 1 .. Len(SetRequests) |-> RequestFields(SetRequests[i])[1]]

\* the flag letters that are one of m, a, b, in the order given
MutatingSequence == SelectSeq(FlagLettersGiven, LAMBDA letter : letter \in {"m", "a", "b"})

\* the command words the letters of the flag token ask for, in order
SetCommandsExpected ==
  [i \in 1 .. Len(MutatingSequence) |-> SetCommandOf(MutatingSequence[i])]

\* how many lines of the output are the not-implemented notice
NoticesPrinted == Cardinality({i \in 1 .. Len(stdout) : stdout[i] = NotImplementedLine})

\* the loop of lines 142-150 has gone through every letter
LoopDone == date # NoDateTime /\ ci = Len(commands) + 1

\* the beginning of the Set request of a mutating letter: the command word
\* and the file
SetRequestHead(letter) == SetCommandOf(letter) \o <<"\t">> \o AbsPath(TestTxt) \o <<"\t">>

\* the Set requests written so far are those of the first mutating letters,
\* in the order given
SetsFollowFlags ==
  /\ Len(SetRequests) <= Len(MutatingSequence)
  /\ \A i \in 1 .. Len(SetRequests) :
       HasLabel(SetRequests[i], SetRequestHead(MutatingSequence[i]))

\* C15: the Set requests written by one invocation are the letters of the
\* flag token in the order given, m as SetModificationTime, a as
\* SetAccessTime, b as SetCreationTime, p and c left out (-am sets access
\* before modification): a prefix of that sequence at any time, all of it
\* once the loop has gone through the letters; each names the file; and the
\* letter c writes no request and only prints the not-implemented notice.
C15_SetsInFlagOrder ==
  [][ArgumentsValid =>
       /\ SetsFollowFlags'
       /\ LoopDone' =>
            /\ Len(SetRequests') = Len(MutatingSequence)
            /\ NoticesPrinted'
                 = Cardinality({i \in 1 .. Len(FlagLettersGiven) : FlagLettersGiven[i] = "c"})
       /\ (pc = 142 /\ sub = "call" /\ ci <= Len(commands) /\ commands[ci] = "c") =>
            /\ requests' = requests
            /\ nread' = nread
            /\ stdout' = Append(stdout, NotImplementedLine)
            /\ ci' = ci + 1
       /\ (pc = 142 /\ sub = "call" /\ ci <= Len(commands) /\ commands[ci] = "p") =>
            (requests' = requests /\ stdout' = stdout /\ ci' = ci + 1)]_vars

\* the run of -am ended well with SetAccessTime written before SetModificationTime
C15_AccessBeforeModification ==
  /\ Ended
  /\ exitStatus = 0
  /\ FlagLettersGiven = <<"a", "m">>
  /\ SetCommandsWritten = <<SetCommandOf("a"), SetCommandOf("m")>>
  /\ Len(requests) = 2

\* the command words of the requests written so far, in order
CommandsWritten == [i \in 1 .. Len(requests) |-> RequestFields(requests[i])[1]]

\* the command words of the three Gets, in the order of the spec
GetCommands ==
  <<<<"G", "e", "t", "A", "c", "c", "e", "s", "s", "T", "i", "m", "e">>,
    <<"G", "e", "t", "M", "o", "d", "i", "f", "i", "c", "a", "t", "i", "o", "n", "T", "i", "m", "e">>,
    <<"G", "e", "t", "C", "r", "e", "a", "t", "i", "o", "n", "T", "i", "m", "e">>>>

\* the exchanges of a run that prints, changes and prints again
PrintSetPrint == GetCommands \o SetCommandsExpected \o GetCommands

\* print is requested together with at least one more letter
PrintWithOthers ==
  /\ ArgumentsValid
  /\ "p" \in Range(FlagLettersGiven)
  /\ Len(FlagLettersGiven) >= 2

\* C16: when p is given together with mutating letters, the requests are
\* three Gets (Access, Modification, Creation), then all the Set requests,
\* then the three Gets again: the requests written are at any time a prefix
\* of that sequence and, when every exchange succeeded, all of it; and no
\* Get of the second group is written before every Set has been answered
\* ok, so the values printed again are read after all changes.
C16_RequeryAfterSets ==
  PrintWithOthers =>
    /\ Len(requests) <= Len(PrintSetPrint)
    /\ CommandsWritten = SubSeq(PrintSetPrint, 1, Len(requests))
    /\ \A i \in 1 .. Len(requests) : RequestFields(requests[i])[2] = AbsPath(TestTxt)
    /\ (Len(requests) > 3 + Len(SetCommandsExpected)) =>
         /\ LoopDone
         /\ nread >= 3 + Len(SetCommandsExpected)
         /\ Len(SetRequests) = Len(SetCommandsExpected)
    /\ (Ended /\ exitStatus = 0) =>
         /\ CommandsWritten = PrintSetPrint
         /\ nread = Len(requests)

\* the run of -pm ended well: three Gets, SetModificationTime, three Gets
C16_PrintSetPrintDone ==
  /\ Ended
  /\ exitStatus = 0
  /\ FlagLettersGiven = <<"p", "m">>
  /\ CommandsWritten = GetCommands \o <<SetCommandOf("m")>> \o GetCommands

\* the lines of main inside the with body
BodyLines == {110, 113, 117, 120, 122, 103, 127, 135, 138, 142, 153} \cup GetCallLines \cup PrintLines

\* C17: the child process is launched exactly once per invocation and
\* before any argument validation: nothing is checked, printed or written
\* before the launch, every line of the with body runs with the child
\* started and both pipes open, and every invocation, also one that ends in
\* a usage exit with no request written, has opened the channel once and
\* closed it once when it ends.
C17_LaunchedOnceBeforeValidation ==
  /\ launches <= 1
  /\ (pc = 108) =>
       (launches = 0 /\ stdout = <<>> /\ requests = <<>> /\ commands = <<>> /\ exc = "none")
  /\ (pc # 108) => launches = 1
  /\ (pc \in BodyLines) => (queryOpen /\ responseOpen /\ closeCalls = 0)
  /\ Ended =>
       /\ closeCalls = 1
       /\ ~queryOpen
       /\ ~responseOpen
       /\ returncode \in ReturnCodes

\* the run with too few arguments ended in a usage exit: no request, the
\* child started once and closed once
C17_UsageExitOpenedAndClosed ==
  /\ Ended
  /\ Len(argv) < 3
  /\ UsagePrinted
  /\ requests = <<>>
  /\ launches = 1
  /\ closeCalls = 1
  /\ ~queryOpen
  /\ ~responseOpen

\* C18: every request line is written, and every response line read, while
\* the channel is open: each step that writes a request or reads a response
\* is taken with the child started, both pipes open and close() not yet
\* called, and once close() has been called no request is written and no
\* response read.
C18_NoExchangeAfterClose ==
  [][/\ (requests' # requests \/ nread' # nread) =>
          /\ launches = 1
          /\ queryOpen /\ responseOpen
          /\ queryOpen' /\ responseOpen'
          /\ closeCalls = 0
          /\ returncode = -1
     /\ (closeCalls > 0 \/ ~queryOpen \/ ~responseOpen) =>
          (requests' = requests /\ nread' = nread)]_vars

\* close() is closing the pipes after seven exchanges
C18_ClosingAfterExchanges ==
  /\ pc = 32
  /\ closeCalls = 1
  /\ ~queryOpen
  /\ responseOpen
  /\ Len(requests) = 7
  /\ nread = 7

====
